---- MODULE Spec2Model ----
(***************************************************************************)
(* A model of the soccer environment of pygame_soccer/soccer/              *)
(* soccer_environment.py: SoccerState (agent_list, time_step),             *)
(* SoccerEnvironment.reset / take_action, the scripted computer policy and *)
(* the overlap resolution of _update_agent_pos.                            *)
(*                                                                         *)
(* Conventions.                                                            *)
(*  - A position is a tuple <<x, y>>; the Python None position is <<>>.    *)
(*  - get_pos_distance returns the SQUARE of the Euclidean norm.  The code *)
(*    only compares distances with each other and with 1.0; squaring is    *)
(*    strictly monotone on non-negative numbers and 1.0 squared is 1, so   *)
(*    every comparison has the same outcome.                               *)
(*  - The rewards 1.0, -1.0 and 0.0 are written 1, -1 and 0.               *)
(*  - A call of the random module is a nondeterministic choice: an         *)
(*    operator that draws random numbers returns the SET of its possible   *)
(*    results.                                                             *)
(*  - Agents are numbered 0 .. 2 * team_size - 1 as in get_agent_index.    *)
(***************************************************************************)
EXTENDS Integers, Sequences, FiniteSets, TLC

VARIABLES
    team_size,    \* SoccerEnvironmentOptions.team_size, fixed at construction
    agent_list,   \* SoccerState.agent_list: agent index -> [pos, ball, mode, action]
    time_step,    \* SoccerState.time_step
    reward,       \* reward of the SoccerObservation returned by the last call
    passes,       \* executions of the while body in the last _update_agent_pos
    switches,     \* calls of switch_ball in the last _update_agent_pos
    probe         \* arguments and result of a function applied on its own

vars == <<team_size, agent_list, time_step, reward, passes, switches, probe>>

-----------------------------------------------------------------------------
(* Bounds of the model *)

\* with both team sizes, take_action is explored while time_step is below
\* this bound
MaxSteps == 1

\* with one player against one computer agent, take_action is explored
\* while time_step is below this bound
MaxEpisodeSteps == 101

\* the while loop of _update_agent_pos is cut after this many passes
MaxPasses == 6

\* the lists passed to take_action have up to this many entries
MaxSupplied == 3

\* up to this many input events are pending when render is called
MaxEvents == 1

-----------------------------------------------------------------------------
(* Class constants of SoccerEnvironment *)

team_names == <<"PLAYER", "COMPUTER">>

modes == <<"DEFENSIVE", "OFFENSIVE">>

actions == <<"MOVE_RIGHT", "MOVE_UP", "MOVE_LEFT", "MOVE_DOWN", "STAND">>

strategic_modes == {"APPROACH", "AVOID", "INTERCEPT"}

\* the time step from which is_terminal reports the end of the episode
TerminalTimeStep == 100

None == <<>>

NoMode == "NONE"

Range(s) == {s[i] : i \in DOMAIN s}

-----------------------------------------------------------------------------
(* SoccerMapData: a field of 3 x 2 tiles, all of them walkable.  The goal   *)
(* of a team is the area in which that team scores.                         *)
(*                                                                          *)
(*      x = 0      x = 1      x = 2                                         *)
(*   +----------+----------+----------+                                     *)
(*   | goal C   |          | goal P   |  y = 0                              *)
(*   | spawn P  | spawn P  |          |                                     *)
(*   +----------+----------+----------+                                     *)
(*   | goal C   |          | goal P   |  y = 1                              *)
(*   |          | spawn C  | spawn C  |                                     *)
(*   +----------+----------+----------+                                     *)

walkable == {<<0, 0>>, <<1, 0>>, <<2, 0>>, <<0, 1>>, <<1, 1>>, <<2, 1>>}

spawn == [PLAYER   |-> <<<<0, 0>>, <<1, 0>>>>,
          COMPUTER |-> <<<<1, 1>>, <<2, 1>>>>]

goals == [PLAYER   |-> <<<<2, 0>>, <<2, 1>>>>,
          COMPUTER |-> <<<<0, 0>>, <<0, 1>>>>]

-----------------------------------------------------------------------------
(* SoccerEnvironmentOptions *)

get_agent_size == 2 * team_size

AgentIndices == 0 .. (get_agent_size - 1)

TeamAgentIndices == 0 .. (team_size - 1)

-----------------------------------------------------------------------------
(* Static helpers of SoccerEnvironment *)

\* get_agent_index for the team size size
agent_index_of(size, team_name, team_agent_index) ==
    LET group_index == IF team_name = "PLAYER" THEN 0 ELSE 1
    IN  size * group_index + team_agent_index

get_agent_index(team_name, team_agent_index) ==
    agent_index_of(team_size, team_name, team_agent_index)

get_moved_pos(pos, action) ==
    CASE action = "MOVE_RIGHT" -> <<pos[1] + 1, pos[2]>>
      [] action = "MOVE_UP"    -> <<pos[1], pos[2] - 1>>
      [] action = "MOVE_LEFT"  -> <<pos[1] - 1, pos[2]>>
      [] action = "MOVE_DOWN"  -> <<pos[1], pos[2] + 1>>
      [] action = "STAND"      -> pos

get_pos_distance(pos1, pos2) ==
    LET vec == <<pos2[1] - pos1[1], pos2[2] - pos1[2]>>
    IN  vec[1] * vec[1] + vec[2] * vec[2]

-----------------------------------------------------------------------------
(* SoccerState: accessors and queries.  al is the agent list they read.    *)
(* A setter returns the agent list with the one field replaced.            *)

get_agent_pos(al, agent_index) == al[agent_index].pos

get_agent_ball(al, agent_index) == al[agent_index].ball

get_agent_mode(al, agent_index) == al[agent_index].mode

get_agent_action(al, agent_index) == al[agent_index].action

set_agent_pos(al, agent_index, pos) ==
    [other \in DOMAIN al |->
        IF other = agent_index
        THEN [al[other] EXCEPT !.pos = pos]
        ELSE al[other]]

set_agent_ball(al, agent_index, has_ball) ==
    [other \in DOMAIN al |->
        IF other = agent_index
        THEN [al[other] EXCEPT !.ball = has_ball]
        ELSE al[other]]

set_agent_mode(al, agent_index, mode) ==
    [other \in DOMAIN al |->
        IF other = agent_index
        THEN [al[other] EXCEPT !.mode = mode]
        ELSE al[other]]

set_agent_action(al, agent_index, action) ==
    [other \in DOMAIN al |->
        IF other = agent_index
        THEN [al[other] EXCEPT !.action = action]
        ELSE al[other]]

get_team_name(agent_index) ==
    IF agent_index < team_size THEN "PLAYER" ELSE "COMPUTER"

\* switch_ball without the negation: the first agent keeps its flag
switch_ball_keep(al, agent_index, other_agent_index) ==
    LET agent_ball == get_agent_ball(al, agent_index)
    IN  set_agent_ball(set_agent_ball(al, agent_index, agent_ball),
                       other_agent_index, agent_ball)

switch_ball(al, agent_index, other_agent_index) ==
    LET agent_ball == get_agent_ball(al, agent_index)
    IN  set_agent_ball(set_agent_ball(al, agent_index, ~agent_ball),
                       other_agent_index, agent_ball)

\* TRUE when get_pos_status finds an agent at pos (a dict, truthy),
\* FALSE when it returns None
get_pos_status(al, pos) ==
    \E agent_index \in DOMAIN al : pos = get_agent_pos(al, agent_index)

\* the agent_index entry of the dict of get_ball_possession: the first
\* holder in enumeration order; -1 stands for the None result
get_ball_possession(al) ==
    IF \E agent_index \in AgentIndices : get_agent_ball(al, agent_index)
    THEN CHOOSE agent_index \in AgentIndices :
             /\ get_agent_ball(al, agent_index)
             /\ \A other \in AgentIndices :
                    get_agent_ball(al, other) => agent_index <= other
    ELSE -1

\* the value get_ball_possession returns: the dict of the first holder in
\* enumeration order, None when the loops end without a holder
ball_possession(al) ==
    LET agent_index == get_ball_possession(al)
    IN  IF agent_index = -1
        THEN None
        ELSE [team_name        |-> get_team_name(agent_index),
              team_agent_index |-> agent_index % team_size,
              agent_index      |-> agent_index]

\* is_agent_win looking at the goal of the other team
is_agent_win_other(al, agent_index) ==
    LET agent_pos == get_agent_pos(al, agent_index)
        has_ball  == get_agent_ball(al, agent_index)
    IN  IF ~has_ball
        THEN FALSE
        ELSE LET team_name == IF get_team_name(agent_index) = "PLAYER"
                              THEN "COMPUTER"
                              ELSE "PLAYER"
             IN  agent_pos \in Range(goals[team_name])

is_agent_win(al, agent_index) ==
    LET agent_pos == get_agent_pos(al, agent_index)
        has_ball  == get_agent_ball(al, agent_index)
    IN  IF ~has_ball
        THEN FALSE
        ELSE LET team_name == get_team_name(agent_index)
             IN  agent_pos \in Range(goals[team_name])

is_team_win(al, team_name) ==
    \E team_agent_index \in TeamAgentIndices :
        is_agent_win(al, get_agent_index(team_name, team_agent_index))

\* is_terminal with > in place of >=
is_terminal_late(al, ts) ==
    IF ts > TerminalTimeStep
    THEN TRUE
    ELSE \E agent_index \in AgentIndices : is_agent_win(al, agent_index)

is_terminal(al, ts) ==
    IF ts >= TerminalTimeStep
    THEN TRUE
    ELSE \E agent_index \in AgentIndices : is_agent_win(al, agent_index)

\* increase_time_step that stops counting at the terminal time step
increase_time_step_capped(ts) ==
    IF ts >= TerminalTimeStep THEN ts ELSE ts + 1

\* increase_time_step that leaves the time step as it is
increase_time_step_none(ts) == ts

increase_time_step(ts) == ts + 1

-----------------------------------------------------------------------------
(* SoccerState.reset and SoccerState.randomize, for the team size size *)

team_sizes == {1, 2}

\* the agent list of reset before randomize: every field is None / False
cleared_agent_list(size) ==
    [agent_index \in 0 .. (2 * size - 1) |->
        [pos |-> None, ball |-> FALSE, mode |-> NoMode, action |-> "NONE"]]

\* The two nested loops of randomize from the n-th agent on; the agents are
\* enumerated team by team, so the n-th agent has index n.
RECURSIVE randomize_from(_, _, _, _, _)
randomize_from(size, al, n, team_has_ball, team_agent_has_ball) ==
    IF n >= 2 * size
    THEN {al}
    ELSE LET team_name        == team_names[(n \div size) + 1]
             team_agent_index == n % size
             agent_index      == agent_index_of(size, team_name,
                                                team_agent_index)
             \* the rejection loop ends with a spawn tile nobody stands on
             found    == {agent_pos \in Range(spawn[team_name]) :
                              ~get_pos_status(al, agent_pos)}
             set_ball == /\ team_name = team_has_ball
                         /\ team_agent_index = team_agent_has_ball
             mode_set == IF team_name = "COMPUTER"
                         THEN Range(modes)
                         ELSE {NoMode}
             placed(agent_pos, computer_mode) ==
                 set_agent_action(
                     set_agent_mode(
                         set_agent_ball(
                             set_agent_pos(al, agent_index, agent_pos),
                             agent_index, set_ball),
                         agent_index, computer_mode),
                     agent_index, actions[Len(actions)])
         IN  UNION {randomize_from(size, placed(agent_pos, computer_mode),
                                   n + 1, team_has_ball, team_agent_has_ball) :
                        agent_pos \in found, computer_mode \in mode_set}

\* randomize without the reset of the action at the end of the loop body
randomize_action_kept(size, al) ==
    {[agent_index \in DOMAIN al |->
         [randomized[agent_index] EXCEPT !.action = al[agent_index].action]] :
        randomized \in
            UNION {randomize_from(size, al, 0, team_has_ball,
                                  team_agent_has_ball) :
                       team_has_ball \in Range(team_names),
                       team_agent_has_ball \in 0 .. (size - 1)}}

randomize(size, al) ==
    UNION {randomize_from(size, al, 0, team_has_ball, team_agent_has_ball) :
               team_has_ball \in Range(team_names),
               team_agent_has_ball \in 0 .. (size - 1)}

\* the agent lists SoccerState.reset can leave behind, per team size
reset_agent_lists ==
    [size \in team_sizes |-> randomize(size, cleared_agent_list(size))]

-----------------------------------------------------------------------------
(* The greedy action search of the computer agents *)

\* the orders random.sample(actions, len(actions)) can return
shuffles ==
    {[i \in DOMAIN actions |-> actions[p[i]]] :
        p \in {q \in [DOMAIN actions -> DOMAIN actions] :
                  \A i, j \in DOMAIN actions : q[i] = q[j] => i = j}}

\* is_better with the comparison of APPROACH under AVOID as well
is_better_closer(mode, moved_dist, best_dist) ==
    CASE mode = "APPROACH"  -> moved_dist < best_dist
      [] mode = "AVOID"     -> moved_dist < best_dist
      [] mode = "INTERCEPT" -> moved_dist < best_dist /\ moved_dist >= 1

\* is_better without the test moved_dist >= 1.0 of INTERCEPT
is_better_unguarded(mode, moved_dist, best_dist) ==
    CASE mode = "APPROACH"  -> moved_dist < best_dist
      [] mode = "AVOID"     -> moved_dist > best_dist
      [] mode = "INTERCEPT" -> moved_dist < best_dist

\* the test that lets a candidate replace the best action found so far
is_better(mode, moved_dist, best_dist) ==
    CASE mode = "APPROACH"  -> moved_dist < best_dist
      [] mode = "AVOID"     -> moved_dist > best_dist
      [] mode = "INTERCEPT" -> moved_dist < best_dist /\ moved_dist >= 1

\* the for loop of _get_strategic_action from the k-th shuffled action on
RECURSIVE strategic_scan(_, _, _, _, _, _, _, _)
strategic_scan(w, source_pos, target_pos, mode, shuffled_actions, k, best_action, best_dist) ==
    IF k > Len(shuffled_actions)
    THEN best_action
    ELSE LET action    == shuffled_actions[k]
             moved_pos == get_moved_pos(source_pos, action)
         IN  IF moved_pos \notin w
             THEN strategic_scan(w, source_pos, target_pos, mode,
                                 shuffled_actions, k + 1,
                                 best_action, best_dist)
             ELSE LET moved_dist == get_pos_distance(moved_pos, target_pos)
                  IN  IF is_better(mode, moved_dist, best_dist)
                      THEN strategic_scan(w, source_pos, target_pos, mode,
                                          shuffled_actions, k + 1,
                                          action, moved_dist)
                      ELSE strategic_scan(w, source_pos, target_pos, mode,
                                          shuffled_actions, k + 1,
                                          best_action, best_dist)

\* _get_strategic_action on the walkable set w, for the two random draws
\* default_action = random.choice(actions) and shuffled_actions
_get_strategic_action(w, source_pos, target_pos, mode, default_action, shuffled_actions) ==
    LET orig_dist == get_pos_distance(source_pos, target_pos)
    IN  strategic_scan(w, source_pos, target_pos, mode, shuffled_actions, 1,
                       default_action, orig_dist)

\* every action _get_strategic_action can return on the map, per argument
strategic_actions ==
    [source_pos \in walkable, target_pos \in walkable,
     mode \in strategic_modes |->
        {_get_strategic_action(walkable, source_pos, target_pos, mode,
                               default_action, shuffled_actions) :
            default_action \in Range(actions),
            shuffled_actions \in shuffles}]

\* the actions _get_strategic_action can return on the map when
\* random.choice(actions) draws default_action, over all shuffles
strategic_default_actions ==
    [source_pos \in walkable, target_pos \in walkable,
     mode \in strategic_modes, default_action \in Range(actions) |->
        {_get_strategic_action(walkable, source_pos, target_pos, mode,
                               default_action, shuffled_actions) :
            shuffled_actions \in shuffles}]

-----------------------------------------------------------------------------
(* The scripted policy of the computer agents *)

\* the for loop of _get_nearest_player_index from player_agent_index on;
\* nearest_dist = -1 stands for None
RECURSIVE nearest_player_scan(_, _, _, _, _)
nearest_player_scan(al, computer_pos, player_agent_index, nearest_agent_index, nearest_dist) ==
    IF player_agent_index >= team_size
    THEN nearest_agent_index
    ELSE LET agent_index == get_agent_index("PLAYER", player_agent_index)
             player_pos  == get_agent_pos(al, agent_index)
             dist        == get_pos_distance(computer_pos, player_pos)
         IN  IF nearest_dist = -1 \/ dist < nearest_dist
             THEN nearest_player_scan(al, computer_pos,
                                      player_agent_index + 1,
                                      agent_index, dist)
             ELSE nearest_player_scan(al, computer_pos,
                                      player_agent_index + 1,
                                      nearest_agent_index, nearest_dist)

_get_nearest_player_index(al, computer_agent_index) ==
    LET agent_index  == get_agent_index("COMPUTER", computer_agent_index)
        computer_pos == get_agent_pos(al, agent_index)
    IN  nearest_player_scan(al, computer_pos, 0, -1, -1)

\* _get_defensive_agent_index that defends the nearest player in every case
_get_defensive_agent_index_nearest(al, computer_agent_index) ==
    _get_nearest_player_index(al, computer_agent_index)

_get_defensive_agent_index(al, computer_agent_index) ==
    LET has_ball_agent_index == get_ball_possession(al)
        has_ball_team_name   == get_team_name(has_ball_agent_index)
    IN  IF has_ball_team_name = "PLAYER"
        THEN has_ball_agent_index
        ELSE _get_nearest_player_index(al, computer_agent_index)

\* np.argmin: the first index of a minimal entry
argmin(distances) ==
    CHOOSE i \in DOMAIN distances :
        /\ \A j \in DOMAIN distances : distances[i] <= distances[j]
        /\ \A j \in DOMAIN distances :
               distances[j] = distances[i] => i <= j

\* np.argmax: the first index of a maximal entry
argmax(distances) ==
    CHOOSE i \in DOMAIN distances :
        /\ \A j \in DOMAIN distances : distances[i] >= distances[j]
        /\ \A j \in DOMAIN distances :
               distances[j] = distances[i] => i <= j

\* computer_target with the position of the defensive target as the target
\* of a DEFENSIVE agent without the ball
computer_target_player(al, computer_agent_index) ==
    LET agent_index   == get_agent_index("COMPUTER", computer_agent_index)
        computer_ball == get_agent_ball(al, agent_index)
        computer_mode == get_agent_mode(al, agent_index)
        nearest_player_index ==
            _get_nearest_player_index(al, computer_agent_index)
        nearest_player_pos == get_agent_pos(al, nearest_player_index)
        defensive_target_agent_index ==
            _get_defensive_agent_index(al, computer_agent_index)
        defensive_target_agent_pos ==
            get_agent_pos(al, defensive_target_agent_index)
        computer_goals == goals["COMPUTER"]
    IN  CASE computer_mode = "DEFENSIVE" /\ computer_ball ->
               [target_pos |-> nearest_player_pos, strategic_mode |-> "AVOID"]
          [] computer_mode = "DEFENSIVE" /\ ~computer_ball ->
               [target_pos |-> defensive_target_agent_pos,
                strategic_mode |-> "APPROACH"]
          [] computer_mode = "OFFENSIVE" /\ computer_ball ->
               LET distances ==
                       [i \in DOMAIN computer_goals |->
                           get_pos_distance(computer_goals[i],
                                            nearest_player_pos)]
               IN  [target_pos |-> computer_goals[argmax(distances)],
                    strategic_mode |-> "APPROACH"]
          [] computer_mode = "OFFENSIVE" /\ ~computer_ball ->
               [target_pos |-> defensive_target_agent_pos,
                strategic_mode |-> "INTERCEPT"]

\* the target position and the strategic mode _get_computer_action derives
computer_target(al, computer_agent_index) ==
    LET agent_index   == get_agent_index("COMPUTER", computer_agent_index)
        computer_ball == get_agent_ball(al, agent_index)
        computer_mode == get_agent_mode(al, agent_index)
        nearest_player_index ==
            _get_nearest_player_index(al, computer_agent_index)
        nearest_player_pos == get_agent_pos(al, nearest_player_index)
        defensive_target_agent_index ==
            _get_defensive_agent_index(al, computer_agent_index)
        defensive_target_agent_pos ==
            get_agent_pos(al, defensive_target_agent_index)
        player_goals   == goals["PLAYER"]
        computer_goals == goals["COMPUTER"]
    IN  CASE computer_mode = "DEFENSIVE" /\ computer_ball ->
               [target_pos |-> nearest_player_pos, strategic_mode |-> "AVOID"]
          [] computer_mode = "DEFENSIVE" /\ ~computer_ball ->
               LET distances ==
                       [i \in DOMAIN player_goals |->
                           get_pos_distance(player_goals[i],
                                            defensive_target_agent_pos)]
               IN  [target_pos |-> player_goals[argmin(distances)],
                    strategic_mode |-> "APPROACH"]
          [] computer_mode = "OFFENSIVE" /\ computer_ball ->
               LET distances ==
                       [i \in DOMAIN computer_goals |->
                           get_pos_distance(computer_goals[i],
                                            nearest_player_pos)]
               IN  [target_pos |-> computer_goals[argmax(distances)],
                    strategic_mode |-> "APPROACH"]
          [] computer_mode = "OFFENSIVE" /\ ~computer_ball ->
               [target_pos |-> defensive_target_agent_pos,
                strategic_mode |-> "INTERCEPT"]

\* _get_computer_action that repeats the action saved for the first player
_get_computer_action_copying(al, computer_agent_index) ==
    {get_agent_action(al, get_agent_index("PLAYER", 0))}

\* the actions _get_computer_action can return
_get_computer_action(al, computer_agent_index) ==
    LET agent_index  == get_agent_index("COMPUTER", computer_agent_index)
        computer_pos == get_agent_pos(al, agent_index)
        target       == computer_target(al, computer_agent_index)
    IN  strategic_actions[computer_pos, target.target_pos,
                          target.strategic_mode]

-----------------------------------------------------------------------------
(* SoccerEnvironment.take_action: intended positions *)

\* intended_pos without the test of the walkable area
intended_pos_of_unchecked(al, chosen) ==
    [agent_index \in AgentIndices |->
        get_moved_pos(get_agent_pos(al, agent_index), chosen[agent_index])]

\* the list intended_pos of _get_intended_pos: the moved position of every
\* agent where it is walkable, its position otherwise
intended_pos_of(al, chosen) ==
    [agent_index \in AgentIndices |->
        LET pos       == get_agent_pos(al, agent_index)
            moved_pos == get_moved_pos(pos, chosen[agent_index])
        IN  IF moved_pos \in walkable THEN moved_pos ELSE pos]

\* _get_intended_pos that saves the chosen action with set_agent_mode
_get_intended_pos_as_mode(al, chosen) ==
    [agent_list |->
        [agent_index \in AgentIndices |->
            [al[agent_index] EXCEPT !.mode = chosen[agent_index]]],
     intended_pos |-> intended_pos_of(al, chosen)]

\* _get_intended_pos that saves STAND for an agent whose moved position is
\* not walkable
_get_intended_pos_honored(al, chosen) ==
    [agent_list |->
        [agent_index \in AgentIndices |->
            [al[agent_index] EXCEPT
                !.action = IF get_moved_pos(al[agent_index].pos,
                                            chosen[agent_index]) \in walkable
                           THEN chosen[agent_index]
                           ELSE "STAND"]],
     intended_pos |-> intended_pos_of(al, chosen)]

\* The agent list and the intended positions _get_intended_pos leaves, for
\* the actions chosen[agent_index] of all agents: action[team_agent_index]
\* for a player, the result of _get_computer_action for a computer agent.
_get_intended_pos(al, chosen) ==
    [agent_list |->
        [agent_index \in AgentIndices |->
            [al[agent_index] EXCEPT !.action = chosen[agent_index]]],
     intended_pos |-> intended_pos_of(al, chosen)]

\* the lists of intended positions _get_intended_pos can return for the
\* agent list al, over all actions of all agents
intended_positions(al) ==
    {intended_pos_of(al, chosen) : chosen \in [AgentIndices -> Range(actions)]}

\* the choices of the computer agents in one take_action; the policy reads
\* positions, ball flags and modes only, none of which _get_intended_pos
\* writes, so every computer agent decides on the agent list al
computer_choices(al) ==
    {chosen \in [team_size .. (get_agent_size - 1) -> Range(actions)] :
        \A agent_index \in team_size .. (get_agent_size - 1) :
            chosen[agent_index] \in
                _get_computer_action(al, agent_index - team_size)}

-----------------------------------------------------------------------------
(* SoccerEnvironment.take_action: overlap resolution *)

\* The dict of _get_overlapping_pos_to_agent as the sequence of its items
\* [pos, agents], in insertion order, built from the n-th agent on.
RECURSIVE overlapping_from(_, _, _, _)
overlapping_from(al, intended_pos, n, overlapping_pos_to_agent) ==
    IF n >= get_agent_size
    THEN overlapping_pos_to_agent
    ELSE LET pos == IF intended_pos[n] \notin walkable
                    THEN get_agent_pos(al, n)
                    ELSE intended_pos[n]
             hit == {k \in DOMAIN overlapping_pos_to_agent :
                        overlapping_pos_to_agent[k].pos = pos}
         IN  IF hit # {}
             THEN LET k == CHOOSE k \in hit : TRUE
                  IN  overlapping_from(al, intended_pos, n + 1,
                          [j \in DOMAIN overlapping_pos_to_agent |->
                              IF j = k
                              THEN [pos |-> pos,
                                    agents |->
                                        Append(overlapping_pos_to_agent[j].agents, n)]
                              ELSE overlapping_pos_to_agent[j]])
             ELSE overlapping_from(al, intended_pos, n + 1,
                      Append(overlapping_pos_to_agent,
                             [pos |-> pos, agents |-> <<n>>]))

_get_overlapping_pos_to_agent(al, intended_pos) ==
    overlapping_from(al, intended_pos, 0, <<>>)

\* _update_ball_possession that never switches
_update_ball_possession_none(al, agent_index_list) ==
    {[agent_list |-> al, switch |-> FALSE]}

\* The outcomes [agent_list, switch] of _update_ball_possession; the ball
\* goes from the last holder of the list to any agent of no_ball_agent_list.
_update_ball_possession(al, agent_index_list) ==
    LET holders == {k \in DOMAIN agent_index_list :
                       get_agent_ball(al, agent_index_list[k])}
        no_ball_agent_list ==
            {agent_index_list[k] : k \in DOMAIN agent_index_list \ holders}
    IN  IF holders # {}
        THEN LET last == CHOOSE k \in holders : \A j \in holders : j <= k
                 has_ball_agent_index == agent_index_list[last]
             IN  {[agent_list |-> switch_ball(al, has_ball_agent_index,
                                              switch_agent_index),
                   switch |-> TRUE] :
                      switch_agent_index \in no_ball_agent_list}
        ELSE {[agent_list |-> al, switch |-> FALSE]}

\* a contested group that is not sent back
rolled_back_none(al, intended_pos, agent_index_list) == intended_pos

\* the positions a contested group is sent back to
rolled_back(al, intended_pos, agent_index_list) ==
    [agent_index \in DOMAIN intended_pos |->
        IF agent_index \in Range(agent_index_list)
        THEN get_agent_pos(al, agent_index)
        ELSE intended_pos[agent_index]]

\* the ball switch without its guard
may_switch_always(st) == TRUE

\* the test "if not has_switched" that guards the ball switch
may_switch(st) == ~st.has_switched

\* an if in place of the while: a single pass
while_detecting_once(st) == st.detecting_overlap /\ st.passes = 0

\* the condition of the while loop
while_detecting(st) == st.detecting_overlap

\* The for loop of one pass of _update_agent_pos from the k-th item on.
\* st holds the locals of _update_agent_pos and the agent list, with the
\* counters passes and switches.
RECURSIVE resolve_items(_, _, _)
resolve_items(items, k, st) ==
    IF k > Len(items)
    THEN {st}
    ELSE LET agent_index_list == items[k].agents
         IN  IF Len(agent_index_list) > 1
             THEN LET switched ==
                          IF may_switch(st)
                          THEN {[st EXCEPT
                                    !.agent_list = r.agent_list,
                                    !.has_switched = st.has_switched \/ r.switch,
                                    !.switches = IF r.switch THEN @ + 1 ELSE @] :
                                   r \in _update_ball_possession(
                                             st.agent_list, agent_index_list)}
                          ELSE {st}
                  IN  UNION {resolve_items(items, k + 1,
                                 [s EXCEPT
                                     !.intended_pos =
                                         rolled_back(s.agent_list, @,
                                                     agent_index_list),
                                     !.detecting_overlap = TRUE]) :
                                s \in switched}
             ELSE resolve_items(items, k + 1, st)

\* the while loop of _update_agent_pos, cut after MaxPasses passes
RECURSIVE resolve_overlaps(_)
resolve_overlaps(st) ==
    IF ~while_detecting(st) \/ st.passes >= MaxPasses
    THEN {st}
    ELSE LET overlapping_pos_to_agent ==
                 _get_overlapping_pos_to_agent(st.agent_list, st.intended_pos)
         IN  UNION {resolve_overlaps(s) :
                       s \in resolve_items(overlapping_pos_to_agent, 1,
                                 [st EXCEPT !.detecting_overlap = FALSE,
                                            !.passes = @ + 1])}

\* The outcomes [agent_list, passes, switches] of _update_agent_pos.
_update_agent_pos(al, intended_pos) ==
    {[agent_list |->
         [agent_index \in AgentIndices |->
             [st.agent_list[agent_index] EXCEPT
                 !.pos = st.intended_pos[agent_index]]],
      passes |-> st.passes,
      switches |-> st.switches] :
        st \in resolve_overlaps([agent_list |-> al,
                                 intended_pos |-> intended_pos,
                                 detecting_overlap |-> TRUE,
                                 has_switched |-> FALSE,
                                 passes |-> 0,
                                 switches |-> 0])}

\* _get_reward without the negative reward
_get_reward_no_loss(al) ==
    IF is_team_win(al, "PLAYER") THEN 1 ELSE 0

_get_reward(al) ==
    IF is_team_win(al, "PLAYER")
    THEN 1
    ELSE IF is_team_win(al, "COMPUTER")
         THEN -1
         ELSE 0

-----------------------------------------------------------------------------
(* The environment as a state machine *)

\* the reward read before the positions are updated
observed_reward_early(before, after) == _get_reward(before)

\* the reward of the observation of take_action, for the agent lists before
\* and after _update_agent_pos: _get_reward is called after the update
observed_reward(before, after) == _get_reward(after)

NoProbe == [kind |-> "none"]

\* SoccerEnvironment.__init__ with team_size 1 or 2: SoccerState.__init__
\* calls reset
Init ==
    /\ team_size \in team_sizes
    /\ agent_list \in reset_agent_lists[team_size]
    /\ time_step = 0
    /\ reward = 0
    /\ passes = 0
    /\ switches = 0
    /\ probe = NoProbe

\* SoccerEnvironment.reset
reset ==
    /\ agent_list' \in reset_agent_lists[team_size]
    /\ time_step' = 0
    /\ reward' = 0
    /\ passes' = 0
    /\ switches' = 0
    /\ UNCHANGED <<team_size, probe>>

\* SoccerEnvironment.take_action with one valid action per player
take_action ==
    /\ \E computer \in computer_choices(agent_list) :
           \E action \in [TeamAgentIndices -> Range(actions)] :
               LET chosen == [agent_index \in AgentIndices |->
                                 IF get_team_name(agent_index) = "PLAYER"
                                 THEN action[agent_index]
                                 ELSE computer[agent_index]]
                   intended == _get_intended_pos(agent_list, chosen)
               IN  \E updated \in _update_agent_pos(intended.agent_list,
                                                    intended.intended_pos) :
                       /\ agent_list' = updated.agent_list
                       /\ passes' = updated.passes
                       /\ switches' = updated.switches
                       /\ reward' = observed_reward(agent_list,
                                                     updated.agent_list)
    /\ time_step' = increase_time_step(time_step)
    /\ UNCHANGED <<team_size, probe>>

\* take_action is explored while time_step is below MaxSteps
TakeAction ==
    /\ time_step < MaxSteps
    /\ take_action

Next == TakeAction

\* The environment of both team sizes from every outcome of reset. A reset
\* in between leads to one of the initial states again and adds no state;
\* SpecEpisode has it as a transition.
Spec == Init /\ [][Next]_vars

-----------------------------------------------------------------------------
(* One player against one computer agent: reset at any time, and episodes  *)
(* run past the time step at which is_terminal ends them                    *)

InitEpisode ==
    /\ Init
    /\ team_size = 1

TakeActionEpisode ==
    /\ time_step < MaxEpisodeSteps
    /\ take_action

ResetEpisode == reset

NextEpisode == ResetEpisode \/ TakeActionEpisode

SpecEpisode == InitEpisode /\ [][NextEpisode]_vars

-----------------------------------------------------------------------------
(* take_action from the call of _update_agent_pos on: the agents stand on   *)
(* any distinct walkable tiles or where reset puts them, any agent holds    *)
(* the ball, and the intended positions are those of any actions of the     *)
(* agents                                                                   *)

\* the agent lists with the agents on distinct walkable tiles and one ball
placed_agent_lists ==
    [size \in team_sizes |->
        {[agent_index \in 0 .. (2 * size - 1) |->
             [pos    |-> pos[agent_index],
              ball   |-> agent_index = holder,
              mode   |-> IF agent_index < size THEN NoMode ELSE modes[1],
              action |-> actions[Len(actions)]]] :
            pos \in {p \in [0 .. (2 * size - 1) -> walkable] :
                        \A i, j \in 0 .. (2 * size - 1) :
                            p[i] = p[j] => i = j},
            holder \in 0 .. (2 * size - 1)}]

InitResolve ==
    /\ team_size \in team_sizes
    /\ agent_list \in placed_agent_lists[team_size]
                        \cup reset_agent_lists[team_size]
    /\ time_step = 0
    /\ reward = 0
    /\ passes = 0
    /\ switches = 0
    /\ probe = [kind |-> "resolve", applied |-> FALSE, intended_pos |-> None]

UpdateAgentPos ==
    /\ probe.kind = "resolve"
    /\ ~probe.applied
    /\ \E intended_pos \in intended_positions(agent_list) :
           \E updated \in _update_agent_pos(agent_list, intended_pos) :
               /\ agent_list' = updated.agent_list
               /\ passes' = updated.passes
               /\ switches' = updated.switches
               /\ reward' = observed_reward(agent_list, updated.agent_list)
               /\ probe' = [kind         |-> "resolve",
                            applied      |-> TRUE,
                            intended_pos |-> intended_pos]
    /\ time_step' = increase_time_step(time_step)
    /\ UNCHANGED team_size

NextResolve == UpdateAgentPos

SpecResolve == InitResolve /\ [][NextResolve]_vars

-----------------------------------------------------------------------------
(* _get_strategic_action applied on its own, for the sources and targets    *)
(* _get_computer_action can pass, any of the walkable sets below and any    *)
(* random draws                                                             *)

probe_walkables == {walkable, walkable \ {<<1, 1>>}}

field == walkable

InitStrategic ==
    /\ team_size = 1
    /\ agent_list = CHOOSE al \in reset_agent_lists[1] : TRUE
    /\ time_step = 0
    /\ reward = 0
    /\ passes = 0
    /\ switches = 0
    /\ probe \in [kind             : {"strategic"},
                  walkable         : probe_walkables,
                  source_pos       : field,
                  target_pos       : field,
                  mode             : strategic_modes,
                  default_action   : Range(actions),
                  shuffled_actions : shuffles,
                  result           : {"NONE"}]
    \* the agent stands on a walkable tile; only the target of APPROACH, a
    \* goal tile, can be the tile of the agent itself
    /\ probe.source_pos \in probe.walkable
    /\ probe.mode # "APPROACH" => probe.source_pos # probe.target_pos

GetStrategicAction ==
    /\ probe.kind = "strategic"
    /\ probe.result = "NONE"
    /\ probe' = [probe EXCEPT
                    !.result = _get_strategic_action(
                                   probe.walkable, probe.source_pos,
                                   probe.target_pos, probe.mode,
                                   probe.default_action,
                                   probe.shuffled_actions)]
    /\ UNCHANGED <<team_size, agent_list, time_step, reward, passes, switches>>

NextStrategic == GetStrategicAction

SpecStrategic == InitStrategic /\ [][NextStrategic]_vars

-----------------------------------------------------------------------------
(* take_action called with any argument: one of the action names or a name  *)
(* that is no action, bare or in a list of up to MaxSupplied entries        *)

\* a string that is none of the five actions
UnknownAction == "JUMP"

action_names == Range(actions) \cup {UnknownAction}

\* len() of a name passed as a bare string
name_len ==
    [name \in action_names |->
        CASE name = "MOVE_RIGHT" -> 10
          [] name = "MOVE_UP"    -> 7
          [] name = "MOVE_LEFT"  -> 9
          [] name = "MOVE_DOWN"  -> 9
          [] name = "STAND"      -> 5
          [] name = "JUMP"       -> 4]

\* the arguments of take_action: is_list is isinstance(action, list)
supplied_actions ==
    [is_list : {FALSE}, value : action_names]
        \cup {[is_list |-> TRUE, value |-> value] :
                  value \in UNION {[1 .. n -> action_names] : n \in 0 .. MaxSupplied}}

\* _get_wrapped_action that never wraps a bare action in a list
_get_wrapped_action_unwrapped(size, supplied) ==
    LET action == supplied
        len    == IF action.is_list
                  THEN Len(action.value)
                  ELSE name_len[action.value]
    IN  IF len # size
        THEN [raised |-> "ValueError", action |-> action]
        ELSE [raised |-> "NONE", action |-> action]

\* _get_wrapped_action for the team size size: the wrapped action, or the
\* ValueError it raises
_get_wrapped_action(size, supplied) ==
    LET action == IF size <= 1 /\ ~supplied.is_list
                  THEN [is_list |-> TRUE, value |-> <<supplied.value>>]
                  ELSE supplied
        len    == IF action.is_list
                  THEN Len(action.value)
                  ELSE name_len[action.value]
    IN  IF len # size
        THEN [raised |-> "ValueError", action |-> action]
        ELSE [raised |-> "NONE", action |-> action]

\* saved_until_unknown with the action saved after get_moved_pos has looked
\* at it: the unknown action is not saved
saved_until_unknown_late(al, action) ==
    LET first_unknown ==
            CHOOSE i \in DOMAIN action :
                /\ action[i] \notin Range(actions)
                /\ \A j \in DOMAIN action :
                       action[j] \notin Range(actions) => i <= j
    IN  [agent_index \in DOMAIN al |->
            IF agent_index + 1 < first_unknown
            THEN [al[agent_index] EXCEPT !.action = action[agent_index + 1]]
            ELSE al[agent_index]]

\* saved_until_unknown that also writes the intended position of every
\* player visited before the KeyError
saved_until_unknown_moved(al, action) ==
    LET first_unknown ==
            CHOOSE i \in DOMAIN action :
                /\ action[i] \notin Range(actions)
                /\ \A j \in DOMAIN action :
                       action[j] \notin Range(actions) => i <= j
    IN  [agent_index \in DOMAIN al |->
            IF agent_index + 1 < first_unknown
            THEN LET moved_pos == get_moved_pos(al[agent_index].pos,
                                                action[agent_index + 1])
                 IN  [al[agent_index] EXCEPT
                         !.action = action[agent_index + 1],
                         !.pos = IF moved_pos \in walkable THEN moved_pos ELSE @]
            ELSE IF agent_index + 1 = first_unknown
                 THEN [al[agent_index] EXCEPT !.action = action[agent_index + 1]]
                 ELSE al[agent_index]]

\* The agent list _get_intended_pos leaves when get_moved_pos raises
\* KeyError: the players are visited first and in order, and the action of
\* a player is saved before get_moved_pos looks at it. action is a 1-based
\* sequence, the action of player i is action[i + 1].
saved_until_unknown(al, action) ==
    LET first_unknown ==
            CHOOSE i \in DOMAIN action :
                /\ action[i] \notin Range(actions)
                /\ \A j \in DOMAIN action :
                       action[j] \notin Range(actions) => i <= j
    IN  [agent_index \in DOMAIN al |->
            IF agent_index + 1 <= first_unknown
            THEN [al[agent_index] EXCEPT !.action = action[agent_index + 1]]
            ELSE al[agent_index]]

InitCall ==
    /\ team_size \in team_sizes
    /\ agent_list \in reset_agent_lists[team_size]
    /\ time_step = 0
    /\ reward = 0
    /\ passes = 0
    /\ switches = 0
    /\ probe = [kind |-> "call", applied |-> FALSE]

\* the call raises ValueError in _get_wrapped_action
TakeActionValueError(supplied) ==
    /\ _get_wrapped_action(team_size, supplied).raised = "ValueError"
    /\ probe' = [kind |-> "call", applied |-> TRUE, supplied |-> supplied,
                 raised |-> "ValueError"]
    /\ UNCHANGED <<team_size, agent_list, time_step, reward, passes, switches>>

\* the call raises KeyError in get_moved_pos
TakeActionKeyError(supplied) ==
    LET wrapped == _get_wrapped_action(team_size, supplied)
    IN  /\ wrapped.raised = "NONE"
        /\ \E i \in DOMAIN wrapped.action.value :
               wrapped.action.value[i] \notin Range(actions)
        /\ agent_list' = saved_until_unknown(agent_list, wrapped.action.value)
        /\ probe' = [kind |-> "call", applied |-> TRUE, supplied |-> supplied,
                     raised |-> "KeyError"]
        /\ UNCHANGED <<team_size, time_step, reward, passes, switches>>

\* the call returns an observation
TakeActionReturns(supplied) ==
    LET wrapped == _get_wrapped_action(team_size, supplied)
    IN  /\ wrapped.raised = "NONE"
        /\ \A i \in DOMAIN wrapped.action.value :
               wrapped.action.value[i] \in Range(actions)
        /\ \E computer \in computer_choices(agent_list) :
               LET chosen == [agent_index \in AgentIndices |->
                                 IF get_team_name(agent_index) = "PLAYER"
                                 THEN wrapped.action.value[agent_index + 1]
                                 ELSE computer[agent_index]]
                   intended == _get_intended_pos(agent_list, chosen)
               IN  \E updated \in _update_agent_pos(intended.agent_list,
                                                    intended.intended_pos) :
                       /\ agent_list' = updated.agent_list
                       /\ passes' = updated.passes
                       /\ switches' = updated.switches
                       /\ reward' = observed_reward(agent_list,
                                                     updated.agent_list)
                       /\ probe' = [kind     |-> "call",
                                    applied  |-> TRUE,
                                    supplied |-> supplied,
                                    raised   |-> "NONE",
                                    chosen   |-> chosen]
        /\ time_step' = increase_time_step(time_step)
        /\ UNCHANGED team_size

TakeActionCall ==
    /\ probe.kind = "call"
    /\ ~probe.applied
    /\ \E supplied \in supplied_actions :
           \/ TakeActionValueError(supplied)
           \/ TakeActionKeyError(supplied)
           \/ TakeActionReturns(supplied)

NextCall == TakeActionCall

SpecCall == InitCall /\ [][NextCall]_vars

-----------------------------------------------------------------------------
(* get_ball_possession applied on its own: the agent list is one of reset   *)
(* whose ball flags have been written by set_agent_ball, in any way         *)

flagged_agent_lists ==
    [size \in team_sizes |->
        {[agent_index \in 0 .. (2 * size - 1) |->
             [al[agent_index] EXCEPT !.ball = has_ball[agent_index]]] :
            al \in reset_agent_lists[size],
            has_ball \in [0 .. (2 * size - 1) -> BOOLEAN]}]

InitPossession ==
    /\ team_size \in team_sizes
    /\ agent_list \in flagged_agent_lists[team_size]
    /\ time_step = 0
    /\ reward = 0
    /\ passes = 0
    /\ switches = 0
    /\ probe = [kind |-> "possession", applied |-> FALSE]

\* one call of get_ball_possession: it has no raise statement
GetBallPossession ==
    /\ probe.kind = "possession"
    /\ ~probe.applied
    /\ probe' = [kind    |-> "possession",
                 applied |-> TRUE,
                 raised  |-> "NONE",
                 result  |-> ball_possession(agent_list)]
    /\ UNCHANGED <<team_size, agent_list, time_step, reward, passes, switches>>

NextPossession == GetBallPossession

SpecPossession == InitPossession /\ [][NextPossession]_vars

-----------------------------------------------------------------------------
(* reset called in any state: the agents stand on any distinct walkable     *)
(* tiles, any agent holds the ball, the last actions are any action and     *)
(* the time step is not 0                                                    *)

InitReset ==
    /\ team_size \in team_sizes
    /\ \E al \in placed_agent_lists[team_size] :
       \E action \in Range(actions) :
           agent_list = [agent_index \in DOMAIN al |->
                            [al[agent_index] EXCEPT !.action = action]]
    /\ time_step \in {1, TerminalTimeStep}
    /\ reward \in {0, 1}
    /\ passes = 1
    /\ switches = 0
    /\ probe = NoProbe

NextReset == reset

SpecReset == InitReset /\ [][NextReset]_vars

-----------------------------------------------------------------------------
(* SoccerRenderer.render, called after a reset with any renderer options    *)
(* and any pending input events                                             *)

\* the pending events render tells apart: QUIT, KEYDOWN of the four arrow
\* keys, KEYDOWN of another key, an event of another type
event_kinds == {"QUIT", "K_RIGHT", "K_UP", "K_LEFT", "K_DOWN", "K_OTHER", "OTHER"}

arrow_keys == {"K_RIGHT", "K_UP", "K_LEFT", "K_DOWN"}

\* the action render passes to _get_action for an arrow key
key_action(event) ==
    CASE event = "K_RIGHT" -> "MOVE_RIGHT"
      [] event = "K_UP"    -> "MOVE_UP"
      [] event = "K_LEFT"  -> "MOVE_LEFT"
      [] event = "K_DOWN"  -> "MOVE_DOWN"

\* SoccerRenderer._get_action: STAND for every player but the first
_get_action(first_player_action) ==
    [i \in 1 .. team_size |-> IF i = 1 THEN first_player_action ELSE "STAND"]

\* the outcomes of take_action(action), action a list of one action per
\* player, called in the state current
take_action_results(current, action) ==
    UNION {LET chosen == [agent_index \in AgentIndices |->
                             IF get_team_name(agent_index) = "PLAYER"
                             THEN action[agent_index + 1]
                             ELSE computer[agent_index]]
               intended == _get_intended_pos(current.agent_list, chosen)
           IN  {[agent_list |-> updated.agent_list,
                 time_step  |-> increase_time_step(current.time_step),
                 passes     |-> updated.passes,
                 switches   |-> updated.switches] :
                   updated \in _update_agent_pos(intended.agent_list,
                                                 intended.intended_pos)} :
              computer \in computer_choices(current.agent_list)}

\* the test of render that lets an event call take_action
handles_key_always(enable_key_events, event) == event \in arrow_keys

handles_key(enable_key_events, event) ==
    enable_key_events /\ event \in arrow_keys

\* the for loop of render over the events pygame.event.get() returns, from
\* the k-th event on: the states it can leave and the value render returns
RECURSIVE render_events(_, _, _, _)
render_events(current, enable_key_events, events, k) ==
    IF k > Len(events)
    THEN {[state |-> current, result |-> TRUE]}
    ELSE IF events[k] = "QUIT"
         THEN {[state |-> current, result |-> FALSE]}
         ELSE IF handles_key(enable_key_events, events[k])
              THEN UNION {render_events(next, enable_key_events, events, k + 1) :
                              next \in take_action_results(
                                           current, _get_action(key_action(events[k])))}
              ELSE render_events(current, enable_key_events, events, k + 1)

InitRender ==
    /\ team_size \in team_sizes
    /\ agent_list \in reset_agent_lists[team_size]
    /\ time_step = 0
    /\ reward = 0
    /\ passes = 0
    /\ switches = 0
    /\ probe \in [kind              : {"render"},
                  applied           : {FALSE},
                  show_display      : BOOLEAN,
                  enable_key_events : BOOLEAN,
                  events            : UNION {[1 .. n -> event_kinds] :
                                                n \in 0 .. MaxEvents},
                  result            : {TRUE}]

\* one call of render: the events are read only when the display is shown
Render ==
    /\ probe.kind = "render"
    /\ ~probe.applied
    /\ LET current == [agent_list |-> agent_list, time_step |-> time_step,
                       passes |-> passes, switches |-> switches]
       IN  \E rendered \in IF probe.show_display
                            THEN render_events(current, probe.enable_key_events,
                                               probe.events, 1)
                            ELSE {[state |-> current, result |-> TRUE]} :
               /\ agent_list' = rendered.state.agent_list
               /\ time_step' = rendered.state.time_step
               /\ passes' = rendered.state.passes
               /\ switches' = rendered.state.switches
               /\ probe' = [probe EXCEPT !.applied = TRUE,
                                         !.result = rendered.result]
    /\ UNCHANGED <<team_size, reward>>

NextRender == Render

SpecRender == InitRender /\ [][NextRender]_vars

-----------------------------------------------------------------------------
(* _get_computer_action applied on its own: the agents stand on any         *)
(* distinct walkable tiles, any agent holds the ball, the computer agents   *)
(* are in any modes, and the default action is any random draw              *)

\* the agent lists with the agents on distinct walkable tiles, one ball and
\* any modes of the computer agents
placed_mode_agent_lists ==
    [size \in team_sizes |->
        {[agent_index \in 0 .. (2 * size - 1) |->
             [pos    |-> pos[agent_index],
              ball   |-> agent_index = holder,
              mode   |-> IF agent_index < size
                         THEN NoMode
                         ELSE mode[agent_index],
              action |-> actions[Len(actions)]]] :
            pos \in {p \in [0 .. (2 * size - 1) -> walkable] :
                        \A i, j \in 0 .. (2 * size - 1) :
                            p[i] = p[j] => i = j},
            holder \in 0 .. (2 * size - 1),
            mode \in [size .. (2 * size - 1) -> Range(modes)]}]

InitPolicy ==
    /\ team_size \in team_sizes
    /\ agent_list \in placed_mode_agent_lists[team_size]
    /\ time_step = 0
    /\ reward = 0
    /\ passes = 0
    /\ switches = 0
    /\ probe = [kind |-> "policy", applied |-> FALSE]

\* one call _get_computer_action(computer_agent_index); the probe keeps the
\* target, the strategic mode, the default action and the result
GetComputerAction ==
    /\ probe.kind = "policy"
    /\ ~probe.applied
    /\ \E computer_agent_index \in TeamAgentIndices :
       \E default_action \in Range(actions) :
           LET agent_index  == get_agent_index("COMPUTER", computer_agent_index)
               computer_pos == get_agent_pos(agent_list, agent_index)
               target       == computer_target(agent_list, computer_agent_index)
           IN  \E result \in strategic_default_actions[
                                 computer_pos, target.target_pos,
                                 target.strategic_mode, default_action] :
                   probe' = [kind           |-> "policy",
                             applied        |-> TRUE,
                             agent_index    |-> agent_index,
                             target_pos     |-> target.target_pos,
                             strategic_mode |-> target.strategic_mode,
                             default_action |-> default_action,
                             result         |-> result]
    /\ UNCHANGED <<team_size, agent_list, time_step, reward, passes, switches>>

NextPolicy == GetComputerAction

SpecPolicy == InitPolicy /\ [][NextPolicy]_vars

-----------------------------------------------------------------------------
(* take_action statement by statement: one iteration of the loops of        *)
(* _get_intended_pos, one pass of the while loop of _update_agent_pos, and  *)
(* the writes of the positions with the rest of take_action. The probe      *)
(* keeps the position in the code, the locals and the agent list at the     *)
(* call. The call starts where reset leaves the agents, for both team       *)
(* sizes, and for one player against one computer agent at any placement.   *)

InitStep ==
    /\ team_size \in team_sizes
    /\ agent_list \in reset_agent_lists[team_size]
                        \cup (IF team_size = 1
                              THEN placed_mode_agent_lists[team_size]
                              ELSE {})
    /\ time_step = 0
    /\ reward = 0
    /\ passes = 0
    /\ switches = 0
    /\ probe = [kind              |-> "step",
                pc                |-> "intend",
                before            |-> agent_list,
                n                 |-> 0,
                chosen            |-> [agent_index \in AgentIndices |-> "NONE"],
                intended_pos      |-> [agent_index \in AgentIndices |-> None],
                detecting_overlap |-> TRUE,
                has_switched      |-> FALSE]

\* one iteration of the loops of _get_intended_pos, for the agent probe.n:
\* a player takes any action of the argument, a computer agent the result of
\* _get_computer_action on the agent list as it is at that moment
GetIntendedPos ==
    /\ probe.kind = "step"
    /\ probe.pc = "intend"
    /\ LET agent_index == probe.n
           pos         == get_agent_pos(agent_list, agent_index)
           agent_actions ==
               IF get_team_name(agent_index) = "PLAYER"
               THEN Range(actions)
               ELSE _get_computer_action(agent_list, agent_index - team_size)
       IN  \E agent_action \in agent_actions :
               LET moved_pos == get_moved_pos(pos, agent_action)
               IN  /\ agent_list' = set_agent_action(agent_list, agent_index,
                                                     agent_action)
                   /\ probe' = [probe EXCEPT
                                   !.n = @ + 1,
                                   !.chosen[agent_index] = agent_action,
                                   !.intended_pos[agent_index] =
                                       IF moved_pos \in walkable
                                       THEN moved_pos
                                       ELSE pos,
                                   !.pc = IF agent_index + 1 = get_agent_size
                                          THEN "detect"
                                          ELSE "intend"]
    /\ UNCHANGED <<team_size, time_step, reward, passes, switches>>

\* one pass of the while loop of _update_agent_pos
DetectOverlap ==
    /\ probe.kind = "step"
    /\ probe.pc = "detect"
    /\ LET st == [agent_list        |-> agent_list,
                  intended_pos      |-> probe.intended_pos,
                  detecting_overlap |-> probe.detecting_overlap,
                  has_switched      |-> probe.has_switched,
                  passes            |-> passes,
                  switches          |-> switches]
       IN  /\ while_detecting(st)
           /\ passes < MaxPasses
           /\ \E s \in resolve_items(
                           _get_overlapping_pos_to_agent(agent_list,
                                                         probe.intended_pos),
                           1,
                           [st EXCEPT !.detecting_overlap = FALSE,
                                      !.passes = @ + 1]) :
                  /\ agent_list' = s.agent_list
                  /\ passes' = s.passes
                  /\ switches' = s.switches
                  /\ probe' = [probe EXCEPT
                                  !.intended_pos = s.intended_pos,
                                  !.detecting_overlap = s.detecting_overlap,
                                  !.has_switched = s.has_switched]
    /\ UNCHANGED <<team_size, time_step, reward>>

\* the loop that writes the positions, after the while loop, and the rest of
\* take_action
SetAgentPos ==
    /\ probe.kind = "step"
    /\ probe.pc = "detect"
    /\ ~probe.detecting_overlap
    /\ agent_list' = [agent_index \in AgentIndices |->
                         [agent_list[agent_index] EXCEPT
                             !.pos = probe.intended_pos[agent_index]]]
    /\ time_step' = increase_time_step(time_step)
    /\ reward' = observed_reward(probe.before, agent_list')
    /\ probe' = [probe EXCEPT !.pc = "done"]
    /\ UNCHANGED <<team_size, passes, switches>>

NextStep == GetIntendedPos \/ DetectOverlap \/ SetAgentPos

SpecStep == InitStep /\ [][NextStep]_vars

-----------------------------------------------------------------------------
(* Properties *)

\* the agents that hold the ball
Holders == {agent_index \in AgentIndices : get_agent_ball(agent_list, agent_index)}

\* the transition is a committed take_action
Stepped == time_step' = time_step + 1

\* the intended position of an agent in the take_action that leads to the
\* next state: its position moved by the action recorded for it there
IntendedPos(agent_index) ==
    LET pos       == get_agent_pos(agent_list, agent_index)
        moved_pos == get_moved_pos(pos, get_agent_action(agent_list', agent_index))
    IN  IF moved_pos \in walkable THEN moved_pos ELSE pos

\* C1: in every state reached by construction, reset and take_action, for
\* both team sizes, exactly one agent holds the ball.
C1_ExactlyOneBall == Cardinality(Holders) = 1

\* a ball switch has happened in the last take_action of a two-agent team
C1_Witness ==
    /\ team_size = 2
    /\ switches = 1
    /\ Cardinality(Holders) = 1

\* C2: after reset and after every committed take_action no two agents stand
\* on the same tile.
C2_NoSharedTile ==
    \A i, j \in AgentIndices :
        get_agent_pos(agent_list, i) = get_agent_pos(agent_list, j) => i = j

\* a take_action whose resolution needed a second contested pass, the old
\* tile of a rolled-back agent being the destination of another agent
C2_Witness ==
    /\ time_step > 0
    /\ passes >= 3
    /\ C2_NoSharedTile

\* C3: the while loop of _update_agent_pos ends, and its body runs at most
\* 2 * team_size times, from any distinct tiles and any intended positions.
C3_PassesBounded ==
    /\ passes <= 2 * team_size
    /\ passes < MaxPasses

\* four agents whose resolution takes four passes
C3_Witness ==
    /\ probe.kind = "resolve"
    /\ probe.applied
    /\ team_size = 2
    /\ passes = 4

\* C4: within one take_action the ball is switched at most once: the holder
\* is the holder before the step when no switch happened, and another agent,
\* after exactly one switch, otherwise.
C4_SwitchAtMostOnce ==
    [][Stepped =>
          /\ switches' <= 1
          /\ switches' = 0 =>
                 \A i \in AgentIndices :
                     get_agent_ball(agent_list', i) = get_agent_ball(agent_list, i)
          /\ switches' = 1 =>
                 \E i, j \in AgentIndices :
                     /\ i # j
                     /\ get_agent_ball(agent_list, i)
                     /\ get_agent_ball(agent_list', j)
                     /\ \A k \in AgentIndices \ {j} :
                            ~get_agent_ball(agent_list', k)]_vars

\* one switch in a take_action whose loop met contested tiles in two passes
C4_Witness ==
    /\ time_step > 0
    /\ switches = 1
    /\ passes >= 3

Neighbour(pos, action) ==
    CASE action = "MOVE_RIGHT" -> <<pos[1] + 1, pos[2]>>
      [] action = "MOVE_UP"    -> <<pos[1], pos[2] - 1>>
      [] action = "MOVE_LEFT"  -> <<pos[1] - 1, pos[2]>>
      [] action = "MOVE_DOWN"  -> <<pos[1], pos[2] + 1>>

\* the team an agent belongs to and the other team
TeamOf(agent_index) == IF agent_index < team_size THEN "PLAYER" ELSE "COMPUTER"

OtherTeamOf(agent_index) == IF agent_index < team_size THEN "COMPUTER" ELSE "PLAYER"

\* agent_index holds the ball on a tile of the goal set stored for team_name
BallInGoal(al, agent_index, team_name) ==
    /\ al[agent_index].ball
    /\ al[agent_index].pos \in Range(goals[team_name])

\* some agent of the team holds the ball in the goal set of its own name
TeamScores(al, team_name) ==
    \E agent_index \in AgentIndices :
        /\ TeamOf(agent_index) = team_name
        /\ BallInGoal(al, agent_index, team_name)

\* C6 as claimed: is_agent_win is true exactly when the agent holds the ball
\* on a tile of the goal set MapData stores for the team it does not belong to.
C6_WinInGoalOfOtherTeam ==
    \A agent_index \in AgentIndices :
        is_agent_win(agent_list, agent_index)
            <=> BallInGoal(agent_list, agent_index, OtherTeamOf(agent_index))

\* C6 as amended: is_agent_win is true exactly when the agent holds the ball
\* on a tile of the goal set MapData stores under the name of its own team.
C6_WinInGoalOfOwnName ==
    \A agent_index \in AgentIndices :
        is_agent_win(agent_list, agent_index)
            <=> BallInGoal(agent_list, agent_index, TeamOf(agent_index))

\* an agent has carried the ball into the goal set of its own name
C6_Witness ==
    /\ time_step > 0
    /\ team_size = 2
    /\ \E agent_index \in AgentIndices :
           /\ get_team_name(agent_index) = "COMPUTER"
           /\ is_agent_win(agent_list, agent_index)
           /\ get_agent_pos(agent_list, agent_index) \in Range(goals["COMPUTER"])

\* C7: the reward of take_action, which the variable reward holds in the
\* state after the step, is 1 exactly when the player team wins in that state,
\* -1 exactly when the computer team wins there and 0 otherwise; the two
\* teams never win in the same state.
C7_RewardBySide ==
    /\ time_step > 0 =>
           /\ reward \in {1, 0, -1}
           /\ reward = 1 <=> TeamScores(agent_list, "PLAYER")
           /\ reward = -1 <=> TeamScores(agent_list, "COMPUTER")
    /\ ~(/\ is_team_win(agent_list, "PLAYER")
         /\ is_team_win(agent_list, "COMPUTER"))

\* a take_action of two-agent teams after which the computer team has scored
C7_Witness ==
    /\ team_size = 2
    /\ time_step > 0
    /\ reward = -1
    /\ TeamScores(agent_list, "COMPUTER")

\* the player of a one-agent team holds the ball and its action moves it to
\* goal_pos, a walkable tile of the goal it scores in
MovesBallToGoal(goal_pos) ==
    /\ Stepped
    /\ team_size = 1
    /\ get_agent_ball(agent_list, 0)
    /\ get_agent_action(agent_list', 0) # "STAND"
    /\ goal_pos = Neighbour(get_agent_pos(agent_list, 0),
                            get_agent_action(agent_list', 0))
    /\ goal_pos \in walkable
    /\ goal_pos \in Range(goals["PLAYER"])

\* C8 as claimed: with team_size = 1, when the player holds the ball and its
\* action moves it onto a tile of the goal it scores in, the reward is 1 and
\* the state after the step is terminal, whatever the computer agent does.
C8_GoalMoveAlwaysScores ==
    [][\A goal_pos \in walkable :
           MovesBallToGoal(goal_pos) =>
               /\ reward' = 1
               /\ is_terminal(agent_list', time_step')]_vars

\* C8 as amended: the same, provided the intended position of the computer
\* agent in that step is not that goal tile.
C8_UncontestedGoalMoveScores ==
    [][\A goal_pos \in walkable :
           (MovesBallToGoal(goal_pos) /\ IntendedPos(1) # goal_pos) =>
               /\ reward' = 1
               /\ is_terminal(agent_list', time_step')
               /\ get_agent_pos(agent_list', 0) = goal_pos]_vars

\* the player has moved from its spawn tile onto a goal tile with the ball
C8_Witness ==
    /\ team_size = 1
    /\ time_step = 1
    /\ get_agent_action(agent_list, 0) # "STAND"
    /\ BallInGoal(agent_list, 0, "PLAYER")
    /\ reward = 1
    /\ is_terminal(agent_list, time_step)

\* holder holds the ball, other does not, and the intended positions passed
\* to _update_agent_pos in the step are the same for both
SameIntendedPos(holder, other) ==
    /\ get_agent_ball(agent_list, holder)
    /\ ~get_agent_ball(agent_list, other)
    /\ probe'.intended_pos[holder] = probe'.intended_pos[other]

\* both agents are where they were before the step
BothStay(holder, other) ==
    /\ get_agent_pos(agent_list', holder) = get_agent_pos(agent_list, holder)
    /\ get_agent_pos(agent_list', other) = get_agent_pos(agent_list, other)

\* C9 as claimed: when a holder and a non-holder have the same intended
\* position, after the step the non-holder has the ball, both agents are at
\* their old positions and the loop has run exactly two passes.
C9_BallToTheOtherInTwoPasses ==
    [][Stepped =>
           \A holder \in Holders : \A other \in AgentIndices :
               SameIntendedPos(holder, other) =>
                   /\ get_agent_ball(agent_list', other)
                   /\ BothStay(holder, other)
                   /\ passes' = 2]_vars

\* C9 as amended: after the step both agents are at their old positions, the
\* ball has left the holder for an agent that did not hold it and had the
\* same intended position, and the loop has run at least two passes; with
\* team_size = 1 the ball is with the other agent after exactly two passes.
C9_BallToAContender ==
    [][Stepped =>
           \A holder \in Holders : \A other \in AgentIndices :
               SameIntendedPos(holder, other) =>
                   /\ BothStay(holder, other)
                   /\ ~get_agent_ball(agent_list', holder)
                   /\ \E receiver \in AgentIndices :
                          /\ SameIntendedPos(holder, receiver)
                          /\ get_agent_ball(agent_list', receiver)
                   /\ passes' >= 2
                   /\ team_size = 1 =>
                          /\ get_agent_ball(agent_list', other)
                          /\ passes' = 2]_vars

\* a step with one contested pass in which the ball was switched
C9_Witness ==
    /\ time_step > 0
    /\ passes = 2
    /\ switches = 1
    /\ \E receiver \in Holders : \E other \in AgentIndices \ {receiver} :
           /\ probe.intended_pos[receiver] = probe.intended_pos[other]
           /\ probe.intended_pos[receiver] # get_agent_pos(agent_list, receiver)

\* the tile the action returned by the probed search leads to is the target
LandsOnTarget ==
    /\ probe.kind = "strategic"
    /\ probe.result # "NONE"
    /\ probe.mode = "INTERCEPT"
    /\ get_pos_distance(get_moved_pos(probe.source_pos, probe.result),
                        probe.target_pos) < 1

\* C10 as claimed: under INTERCEPT the action returned by the greedy search
\* never leads onto the target tile.
C10_InterceptNeverOnTarget == ~LandsOnTarget

\* C10 as amended: under INTERCEPT the search never adopts a candidate that
\* leads onto the target tile; the returned action leads onto the target only
\* when it is the random default action, which the search keeps unexamined.
C10_OnTargetOnlyByDefault ==
    LandsOnTarget => probe.result = probe.default_action

\* next to the target the search rejects the step onto it and keeps STAND
C10_Witness ==
    /\ probe.kind = "strategic"
    /\ probe.mode = "INTERCEPT"
    /\ get_pos_distance(probe.source_pos, probe.target_pos) = 1
    /\ probe.default_action = "STAND"
    /\ probe.result = "STAND"

\* the probed call is _get_computer_action of a DEFENSIVE agent without the
\* ball while no player holds the ball
DefensiveWithoutBall ==
    /\ probe.kind = "policy"
    /\ probe.applied
    /\ get_agent_mode(agent_list, probe.agent_index) = "DEFENSIVE"
    /\ ~get_agent_ball(agent_list, probe.agent_index)
    /\ \A player \in TeamAgentIndices : ~get_agent_ball(agent_list, player)

\* the first of the players at the least distance from the probed agent
NearestPlayer ==
    LET computer_pos == get_agent_pos(agent_list, probe.agent_index)
        player_dist(player) ==
            get_pos_distance(computer_pos, get_agent_pos(agent_list, player))
    IN  CHOOSE player \in TeamAgentIndices :
            \A other \in TeamAgentIndices :
                /\ player_dist(player) <= player_dist(other)
                /\ player_dist(player) = player_dist(other) => player <= other

\* the distance from the target of the probed call after the probed agent
\* has tried action: a move to a tile that is not walkable leaves it in place
ResultingDist(action) ==
    LET computer_pos == get_agent_pos(agent_list, probe.agent_index)
        moved_pos    == get_moved_pos(computer_pos, action)
    IN  IF moved_pos \in walkable
        THEN get_pos_distance(moved_pos, probe.target_pos)
        ELSE get_pos_distance(computer_pos, probe.target_pos)

\* no action brings the probed agent closer to the target of the probed call
AtMinimalDist ==
    \A action \in Range(actions) : ResultingDist(action) >= ResultingDist("STAND")

\* C11 as claimed: for a DEFENSIVE agent without the ball while no player
\* holds the ball, the target is the position of the nearest player, and at
\* the minimal achievable distance the returned action keeps the distance.
C11_TargetIsNearestPlayer ==
    DefensiveWithoutBall =>
        /\ probe.target_pos = get_agent_pos(agent_list, NearestPlayer)
        /\ AtMinimalDist =>
               ResultingDist(probe.result) = ResultingDist("STAND")

\* C11 as amended: in that case the strategic mode is APPROACH and the
\* target is a tile of goals["PLAYER"] at the least distance from the
\* nearest player; the returned action is a walkable move that strictly
\* decreases the distance to the target or else the random default action,
\* so at the minimal achievable distance it is the default action.
C11_TargetIsGoalTileNearPlayer ==
    DefensiveWithoutBall =>
        /\ probe.strategic_mode = "APPROACH"
        /\ probe.target_pos \in Range(goals["PLAYER"])
        /\ \A goal_pos \in Range(goals["PLAYER"]) :
               get_pos_distance(probe.target_pos,
                                get_agent_pos(agent_list, NearestPlayer))
                   <= get_pos_distance(goal_pos,
                                       get_agent_pos(agent_list, NearestPlayer))
        /\ probe.result # probe.default_action =>
               /\ get_moved_pos(get_agent_pos(agent_list, probe.agent_index),
                                probe.result) \in walkable
               /\ ResultingDist(probe.result) < ResultingDist("STAND")
        /\ AtMinimalDist => probe.result = probe.default_action

\* a DEFENSIVE agent without the ball that stands on its target, a goal
\* tile no player stands on, and walks away from it by the default action
C11_Witness ==
    /\ DefensiveWithoutBall
    /\ probe.target_pos # get_agent_pos(agent_list, NearestPlayer)
    /\ AtMinimalDist
    /\ probe.result = probe.default_action
    /\ ResultingDist(probe.result) > ResultingDist("STAND")

\* the number of actions an argument of take_action supplies
SuppliedCount(supplied) ==
    IF supplied.is_list THEN Len(supplied.value) ELSE 1

\* the transition is a call of take_action with an argument
Called == probe.kind = "call" /\ ~probe.applied /\ probe'.applied

\* C12: take_action raises ValueError exactly when the number of supplied
\* actions differs from team_size, a bare action counting as one, and then
\* neither the agent list nor the time step is changed.
C12_ValueErrorIffCountDiffers ==
    [][Called =>
           /\ probe'.raised = "ValueError"
                  <=> SuppliedCount(probe'.supplied) # team_size
           /\ probe'.raised = "ValueError" =>
                  /\ agent_list' = agent_list
                  /\ time_step' = time_step]_vars

\* a bare action passed to a team of two has raised ValueError
C12_Witness ==
    /\ probe.kind = "call"
    /\ probe.applied
    /\ team_size = 2
    /\ ~probe.supplied.is_list
    /\ probe.supplied.value \in Range(actions)
    /\ probe.raised = "ValueError"

\* the values an argument of take_action supplies
SuppliedEntries(supplied) ==
    IF supplied.is_list THEN Range(supplied.value) ELSE {supplied.value}

\* C13: a take_action with one action per player, one of which is none of
\* the five actions, raises KeyError in that call and commits no position,
\* no ball flag and no time step.
C13_UnknownActionRaises ==
    [][(/\ Called
        /\ SuppliedCount(probe'.supplied) = team_size
        /\ UnknownAction \in SuppliedEntries(probe'.supplied)) =>
           /\ probe'.raised = "KeyError"
           /\ time_step' = time_step
           /\ \A agent_index \in AgentIndices :
                  /\ get_agent_pos(agent_list', agent_index)
                         = get_agent_pos(agent_list, agent_index)
                  /\ get_agent_ball(agent_list', agent_index)
                         = get_agent_ball(agent_list, agent_index)]_vars

\* the second player of a team of two was given the unknown action after
\* the first was given a move: KeyError, the move of the first is recorded
C13_Witness ==
    /\ probe.kind = "call"
    /\ probe.applied
    /\ team_size = 2
    /\ probe.raised = "KeyError"
    /\ probe.supplied.value = <<"MOVE_RIGHT", UnknownAction>>
    /\ get_agent_action(agent_list, 0) = "MOVE_RIGHT"
    /\ get_agent_action(agent_list, 1) = UnknownAction

\* C14: get_ball_possession returns the team name, the team agent index
\* and the agent index of an agent that holds the ball, and applied to a
\* state in which no agent holds the ball it raises instead of returning.
C14_RaisesWithoutHolder ==
    (probe.kind = "possession" /\ probe.applied) =>
        IF \E agent_index \in AgentIndices : get_agent_ball(agent_list, agent_index)
        THEN /\ probe.raised = "NONE"
             /\ probe.result # None
             /\ get_agent_ball(agent_list, probe.result.agent_index)
             /\ probe.result.team_name
                    = get_team_name(probe.result.agent_index)
             /\ probe.result.agent_index
                    = get_agent_index(probe.result.team_name,
                                      probe.result.team_agent_index)
        ELSE probe.raised # "NONE"

\* C15: after a take_action that returns, every agent whose chosen action
\* leads to a tile that is not walkable is where it was, and the action
\* recorded for it is the chosen action.
C15_BlockedMoveRecorded ==
    [][(Called /\ probe'.raised = "NONE") =>
           \A agent_index \in AgentIndices :
               get_moved_pos(get_agent_pos(agent_list, agent_index),
                             probe'.chosen[agent_index]) \notin walkable =>
                   /\ get_agent_pos(agent_list', agent_index)
                          = get_agent_pos(agent_list, agent_index)
                   /\ get_agent_action(agent_list', agent_index)
                          = probe'.chosen[agent_index]]_vars

\* a player and a computer agent have both tried to leave the field
C15_Witness ==
    /\ probe.kind = "call"
    /\ probe.applied
    /\ probe.raised = "NONE"
    /\ \E player, computer \in AgentIndices :
           /\ get_team_name(player) = "PLAYER"
           /\ get_team_name(computer) = "COMPUTER"
           /\ \A agent_index \in {player, computer} :
                  /\ get_agent_action(agent_list, agent_index) # "STAND"
                  /\ get_moved_pos(get_agent_pos(agent_list, agent_index),
                                   get_agent_action(agent_list, agent_index))
                         \notin walkable

\* the spawn tiles of the team of an agent
OwnSpawn(agent_index) == Range(spawn[get_team_name(agent_index)])

\* C16: after reset, whatever the state before, every agent stands on a
\* spawn tile of its own team, no two agents share a tile, every last
\* action is STAND, the time step is 0, every computer agent is DEFENSIVE
\* or OFFENSIVE and every player has no mode.
C16_ResetShape ==
    time_step = 0 =>
        /\ \A agent_index \in AgentIndices :
               /\ get_agent_pos(agent_list, agent_index) \in OwnSpawn(agent_index)
               /\ get_agent_action(agent_list, agent_index) = "STAND"
               /\ get_team_name(agent_index) = "COMPUTER" =>
                      get_agent_mode(agent_list, agent_index) \in Range(modes)
               /\ get_team_name(agent_index) = "PLAYER" =>
                      get_agent_mode(agent_list, agent_index) = NoMode
        /\ \A i, j \in AgentIndices :
               get_agent_pos(agent_list, i) = get_agent_pos(agent_list, j)
                   => i = j

\* a state after reset with a team of two, whose spawn area has two tiles
C16_Witness ==
    /\ time_step = 0
    /\ team_size = 2
    /\ reward = 0
    /\ get_agent_pos(agent_list, 0) = spawn["PLAYER"][2]
    /\ get_agent_pos(agent_list, 1) = spawn["PLAYER"][1]
    /\ get_agent_mode(agent_list, 2) # get_agent_mode(agent_list, 3)

\* C17: no take_action changes the mode of an agent: a computer agent
\* keeps the mode reset gave it, a player keeps having none.
C17_ModeUnchanged ==
    [][Called =>
           \A agent_index \in AgentIndices :
               /\ get_agent_mode(agent_list', agent_index)
                      = get_agent_mode(agent_list, agent_index)
               /\ get_team_name(agent_index) = "PLAYER" =>
                      get_agent_mode(agent_list', agent_index) = NoMode
               /\ get_team_name(agent_index) = "COMPUTER" =>
                      get_agent_mode(agent_list', agent_index) \in Range(modes)]_vars

\* a take_action that has moved a player and switched the ball with an
\* OFFENSIVE computer agent in the field
C17_Witness ==
    /\ probe.kind = "call"
    /\ probe.applied
    /\ probe.raised = "NONE"
    /\ switches = 1
    /\ \E agent_index \in AgentIndices :
           get_agent_mode(agent_list, agent_index) = "OFFENSIVE"
    /\ \E agent_index \in AgentIndices :
           /\ get_team_name(agent_index) = "PLAYER"
           /\ get_agent_pos(agent_list, agent_index) \notin Range(spawn["PLAYER"])

\* C18: reset leaves time step 0 and every take_action that returns adds
\* exactly 1 to it (the while loop of a take_action has run at least once,
\* reset leaves passes = 0), and from time step 100 on is_terminal is true:
\* the 100th take_action after a reset, at the latest, leaves a terminal
\* state, whether or not an agent has won.
C18_TerminalWithin100Steps ==
    [][/\ passes' >= 1 => time_step' = time_step + 1
       /\ passes' = 0 => time_step' = 0
       /\ time_step' >= TerminalTimeStep =>
              is_terminal(agent_list', time_step')]_vars

\* the 100th take_action after a reset has been taken, nobody has won in
\* it and the state is terminal
C18_Witness ==
    /\ passes >= 1
    /\ time_step = TerminalTimeStep
    /\ reward = 0
    /\ ~is_team_win(agent_list, "PLAYER")
    /\ ~is_team_win(agent_list, "COMPUTER")
    /\ is_terminal(agent_list, time_step)

\* the transition is a call of render
Rendered == probe.kind = "render" /\ ~probe.applied /\ probe'.applied

\* the arrow keys among the pending events before the first QUIT
RECURSIVE ArrowsBeforeQuit(_, _)
ArrowsBeforeQuit(events, k) ==
    IF k > Len(events) \/ events[k] = "QUIT"
    THEN <<>>
    ELSE IF events[k] \in arrow_keys
         THEN <<events[k]>> \o ArrowsBeforeQuit(events, k + 1)
         ELSE ArrowsBeforeQuit(events, k + 1)

DefensiveTarget ==
    IF \E player \in TeamAgentIndices : get_agent_ball(agent_list, player)
    THEN CHOOSE player \in TeamAgentIndices : get_agent_ball(agent_list, player)
    ELSE NearestPlayer

\* pos is a tile of the goal set of team_name at the least (sign = 1) or the
\* greatest (sign = -1) distance from the tile from
ExtremeGoalTile(pos, team_name, from, sign) ==
    /\ pos \in Range(goals[team_name])
    /\ \A goal_pos \in Range(goals[team_name]) :
           sign * get_pos_distance(pos, from)
               <= sign * get_pos_distance(goal_pos, from)

\* C21: the target and the strategic mode of _get_computer_action, by the
\* mode of the agent and whether it holds the ball: DEFENSIVE with the ball,
\* the position of the nearest player and AVOID; DEFENSIVE without, a tile
\* of goals["PLAYER"] nearest to the defensive target and APPROACH;
\* OFFENSIVE with the ball, a tile of goals["COMPUTER"] farthest from the
\* nearest player and APPROACH; OFFENSIVE without, the position of the
\* defensive target and INTERCEPT.
C21_TargetByModeAndBall ==
    (probe.kind = "policy" /\ probe.applied) =>
        LET computer_mode == get_agent_mode(agent_list, probe.agent_index)
            computer_ball == get_agent_ball(agent_list, probe.agent_index)
            nearest_pos   == get_agent_pos(agent_list, NearestPlayer)
            defensive_pos == get_agent_pos(agent_list, DefensiveTarget)
        IN  /\ (computer_mode = "DEFENSIVE" /\ computer_ball) =>
                   /\ probe.target_pos = nearest_pos
                   /\ probe.strategic_mode = "AVOID"
            /\ (computer_mode = "DEFENSIVE" /\ ~computer_ball) =>
                   /\ ExtremeGoalTile(probe.target_pos, "PLAYER", defensive_pos, 1)
                   /\ probe.strategic_mode = "APPROACH"
            /\ (computer_mode = "OFFENSIVE" /\ computer_ball) =>
                   /\ ExtremeGoalTile(probe.target_pos, "COMPUTER", nearest_pos, -1)
                   /\ probe.strategic_mode = "APPROACH"
            /\ (computer_mode = "OFFENSIVE" /\ ~computer_ball) =>
                   /\ probe.target_pos = defensive_pos
                   /\ probe.strategic_mode = "INTERCEPT"

\* an OFFENSIVE agent without the ball whose defensive target, the player
\* with the ball, is not the player nearest to it
C21_Witness ==
    /\ probe.kind = "policy"
    /\ probe.applied
    /\ team_size = 2
    /\ get_agent_mode(agent_list, probe.agent_index) = "OFFENSIVE"
    /\ probe.strategic_mode = "INTERCEPT"
    /\ DefensiveTarget # NearestPlayer
    /\ probe.target_pos = get_agent_pos(agent_list, DefensiveTarget)
    /\ probe.target_pos # get_agent_pos(agent_list, NearestPlayer)

\* the probed search has returned under APPROACH or AVOID
SearchReturned ==
    /\ probe.kind = "strategic"
    /\ probe.result # "NONE"
    /\ probe.mode \in {"APPROACH", "AVOID"}

\* the actions of the probed search whose moved position is walkable
Candidates ==
    {action \in Range(actions) :
        get_moved_pos(probe.source_pos, action) \in probe.walkable}

\* the distance from the target after a candidate of the probed search
CandidateDist(action) ==
    get_pos_distance(get_moved_pos(probe.source_pos, action), probe.target_pos)

\* the candidate is at least as good as every candidate, under the mode of
\* the probed search
BestCandidate(action) ==
    /\ action \in Candidates
    /\ \A other \in Candidates :
           IF probe.mode = "APPROACH"
           THEN CandidateDist(action) <= CandidateDist(other)
           ELSE CandidateDist(action) >= CandidateDist(other)

\* the candidates strictly better than staying on the source tile
Improving ==
    {action \in Candidates :
        IF probe.mode = "APPROACH"
        THEN CandidateDist(action) < CandidateDist("STAND")
        ELSE CandidateDist(action) > CandidateDist("STAND")}

\* C22 as claimed: under APPROACH and AVOID the returned action leads to a
\* walkable tile and its resulting distance is the least, respectively the
\* greatest, over the actions with a walkable resulting tile.
C22_ResultIsBestCandidate == SearchReturned => BestCandidate(probe.result)

\* C22 as amended: when some candidate is strictly better than staying, the
\* returned action is a best candidate; when none is, it is the random
\* default action, whatever tile that leads to.
C22_BestCandidateOrDefault ==
    SearchReturned =>
        /\ Improving # {} => BestCandidate(probe.result)
        /\ Improving = {} => probe.result = probe.default_action

\* under APPROACH no candidate is closer than the source tile and the
\* default action, which leads off the walkable tiles, is returned
C22_Witness ==
    /\ SearchReturned
    /\ probe.mode = "APPROACH"
    /\ Improving = {}
    /\ probe.result = probe.default_action
    /\ probe.result \notin Candidates

\* the computer agents whose iteration of _get_intended_pos is over
Decided ==
    {agent_index \in AgentIndices :
        /\ get_team_name(agent_index) = "COMPUTER"
        /\ agent_index < probe.n}

\* the positions of the agent list al
Positions(al) == [agent_index \in DOMAIN al |-> get_agent_pos(al, agent_index)]

\* C23: within one take_action the action of every computer agent is one
\* that _get_computer_action returns on the agent list of the call (its
\* positions, ball flags and modes before the step), whatever was decided
\* and saved for the agents enumerated before it, and no position of the
\* agent list is written while the loops of _get_intended_pos and the while
\* loop of _update_agent_pos run.
C23_PreStepReadsLateWrites ==
    probe.kind = "step" =>
        /\ \A agent_index \in Decided :
               probe.chosen[agent_index] \in
                   _get_computer_action(probe.before, agent_index - team_size)
        /\ probe.pc \in {"intend", "detect"} =>
               Positions(agent_list) = Positions(probe.before)

\* the while loop is over, the first computer agent has a move pending that
\* is not written yet, and the actions saved for the first player and for
\* that agent differ from those of the call
C23_Witness ==
    /\ probe.kind = "step"
    /\ team_size = 2
    /\ probe.pc = "detect"
    /\ ~probe.detecting_overlap
    /\ passes >= 1
    /\ probe.intended_pos[2] # get_agent_pos(agent_list, 2)
    /\ get_agent_action(agent_list, 0) # get_agent_action(probe.before, 0)
    /\ get_agent_action(agent_list, 2) # get_agent_action(probe.before, 2)
    /\ Positions(agent_list) = Positions(probe.before)

\* C24: every spawn tile of the map being walkable, every transition of reset
\* and take_action leaves each agent on a walkable tile, and a take_action
\* that returns leaves each agent on the tile it stood on or on the tile next
\* to it in the direction of the action saved for it.
C24_WalkableAndAdjacent ==
    [][/\ \A agent_index \in AgentIndices :
              get_agent_pos(agent_list', agent_index) \in walkable
       /\ Stepped =>
              \A agent_index \in AgentIndices :
                  LET pos    == get_agent_pos(agent_list, agent_index)
                      action == get_agent_action(agent_list', agent_index)
                  IN  \/ get_agent_pos(agent_list', agent_index) = pos
                      \/ /\ action # "STAND"
                         /\ get_agent_pos(agent_list', agent_index) =
                                Neighbour(pos, action)]_vars

\* the player has moved down from its spawn tile (0, 0) in the first step
C24_Witness ==
    /\ \A team_name \in Range(team_names) :
           Range(spawn[team_name]) \subseteq walkable
    /\ time_step = 1
    /\ get_agent_pos(agent_list, 0) = <<0, 1>>
    /\ get_agent_action(agent_list, 0) = "MOVE_DOWN"

\* the list of actions a supplied argument is wrapped into
WrappedValue(supplied) ==
    IF supplied.is_list THEN supplied.value ELSE <<supplied.value>>

\* the first entry of a list of actions that is none of the five actions
FirstUnknown(action) ==
    CHOOSE i \in DOMAIN action :
        /\ action[i] \notin Range(actions)
        /\ \A j \in DOMAIN action : j < i => action[j] \in Range(actions)

\* C25: a take_action that raises KeyError for the unknown action of a
\* player leaves every position, ball flag and mode and the time step as
\* they were; the action saved for every player up to and including the
\* first one with an unknown action is the supplied one, the unknown value
\* included, and the action saved for every computer agent is as it was.
C25_KeyErrorKeepsAllButPlayerActions ==
    [][(Called /\ probe'.raised = "KeyError") =>
           LET action == WrappedValue(probe'.supplied)
           IN  /\ time_step' = time_step
               /\ \A agent_index \in AgentIndices :
                      /\ get_agent_pos(agent_list', agent_index)
                             = get_agent_pos(agent_list, agent_index)
                      /\ get_agent_ball(agent_list', agent_index)
                             = get_agent_ball(agent_list, agent_index)
                      /\ get_agent_mode(agent_list', agent_index)
                             = get_agent_mode(agent_list, agent_index)
               /\ \A agent_index \in AgentIndices :
                      IF get_team_name(agent_index) = "PLAYER"
                      THEN agent_index + 1 <= FirstUnknown(action) =>
                               get_agent_action(agent_list', agent_index)
                                   = action[agent_index + 1]
                      ELSE get_agent_action(agent_list', agent_index)
                               = get_agent_action(agent_list, agent_index)]_vars

\* the first player of a team of two was given the unknown action: KeyError,
\* the unknown action is saved for it and the move supplied for the second
\* player is not
C25_Witness ==
    /\ probe.kind = "call"
    /\ probe.applied
    /\ team_size = 2
    /\ probe.raised = "KeyError"
    /\ probe.supplied.value = <<UnknownAction, "MOVE_RIGHT">>
    /\ get_agent_action(agent_list, 0) = UnknownAction
    /\ get_agent_action(agent_list, 1) = "STAND"
    /\ time_step = 0

\* the transition is a take_action that returns: the while loop of
\* _update_agent_pos has made a pass
Returned == passes' >= 1

\* some agent wins and the terminal time step is not reached
WinTerminal ==
    /\ time_step < TerminalTimeStep
    /\ \E agent_index \in AgentIndices : is_agent_win(agent_list, agent_index)

\* C26: take_action does not look at is_terminal: one that returns from a
\* terminal state has added one to the time step, also from time step 100,
\* and from time step 100 on it leads to a terminal state again, a reset
\* being the only way out.
C26_StepsPastTerminal ==
    [][/\ (is_terminal(agent_list, time_step) /\ Returned) =>
              time_step' = time_step + 1
       /\ (time_step >= TerminalTimeStep /\ Returned) =>
              is_terminal(agent_list', time_step')]_vars

\* a take_action has led to a state that is terminal only because an agent
\* wins; one take_action from it switches the ball, another one moves an
\* agent, and both lead to a state that is not terminal
C26_Witness ==
    /\ passes >= 1
    /\ WinTerminal
    /\ is_terminal(agent_list, time_step)
    /\ ENABLED (/\ TakeActionEpisode
                /\ switches' >= 1
                /\ ~is_terminal(agent_list', time_step'))
    /\ ENABLED (/\ TakeActionEpisode
                /\ Positions(agent_list') # Positions(agent_list)
                /\ ~is_terminal(agent_list', time_step'))

====
